---- MODULE Spec2Model ----
(***************************************************************************)
(* Verification model of the HRMS attendance notifier: the reporting       *)
(* window (utils.js), the absence extraction and multi-month check         *)
(* (attendance.js), the stored-credential loaders (browser-auth.js), the   *)
(* main workflow (index.js) and the functions that launch a browser        *)
(* (browser-auth.js, browser-login.js, import-session.js).                 *)
(*                                                                         *)
(* A JavaScript Date is modelled as a number of clock ticks of local time: *)
(* day number since 1970-01-01 times TicksPerDay, plus the tick within the *)
(* day.  Months are 0-indexed in the Date operators, as in JavaScript.     *)
(***************************************************************************)
EXTENDS Integers, Sequences, FiniteSets, TLC

VARIABLES
    pc,               \* position of the running function
    now,              \* the wall clock (local time, in ticks)
    days,             \* the lookback argument of getDateRange / checkAttendance
    endDate,          \* getDateRange: const endDate
    startDate,        \* getDateRange: const startDate
    months,           \* getDateRange: const months
    tzOffset,         \* local time minus UTC, in ticks
    data,             \* the month payload last received / handed to extractAbsentDays
    absentDays,       \* extractAbsentDays: const absentDays (its return value)
    isTestMode,       \* main: --test
    isEmailTest,      \* main: --test-email
    authModule,       \* the browser-auth.js revision in use
    emailConfig,      \* are SMTP_USER, SMTP_PASS and NOTIFY_EMAIL all set
    sessionFile,      \* session.json
    profileDir,       \* does .browser-session/Default exist
    tokens,           \* config.hrms: accessToken, xsrfToken, mappingId
    tokenSource,      \* where extractTokensFromBrowser took its result from
    browsersLaunched, \* puppeteer.launch calls that returned a browser
    browsersClosed,   \* browser.close calls
    cookies,          \* const cookies = await page.cookies(), <<>> before
    callee,           \* the browser function under call
    calls,            \* per caller: the position and locals of its call
    idx,              \* checkAttendance: position of the for loop in months
    requests,         \* the (month, year, credential) requests issued so far
    allAbsentDays,    \* checkAttendance: const allAbsentDays
    totalAbsentCount, \* checkAttendance: let totalAbsentCount
    monthlySummaries, \* checkAttendance: const monthlySummaries
    result,           \* main: const result, <<>> until checkAttendance returns
    error,            \* the error thrown to main's catch block
    mails,            \* the e-mails handed to the transporter
    exitCode          \* the exit code of the process once pc = "exited"

rangeVars == <<now, days, endDate, startDate, months>>
extractVars == <<tzOffset, data, absentDays>>
mainVars ==
    <<isTestMode, isEmailTest, authModule, emailConfig, sessionFile,
      profileDir, tokens, tokenSource, browsersLaunched, browsersClosed,
      cookies, callee, calls, idx, requests, allAbsentDays, totalAbsentCount,
      monthlySummaries, result, error, mails, exitCode>>

vars == <<pc, rangeVars, extractVars, mainVars>>

(***************************************************************************)
(* Bounds of the model.                                                    *)
(***************************************************************************)
TicksPerDay == 2       \* resolution of the clock within one day
MaxClockSkew == 1      \* ticks the clock may advance between two readings
MaxDays == 31          \* largest lookback explored by the window check
FirstYear == 2024      \* "today" ranges over NumTodays days from 1 January
NumTodays == 130       \* ... of FirstYear
MaxEntries == 2        \* day entries in one DailyAttendanceSummary

None == "none"

(***************************************************************************)
(* The JavaScript Date built-ins used by the program.                      *)
(***************************************************************************)
IsLeap(y) == (y % 4 = 0 /\ y % 100 # 0) \/ y % 400 = 0

DaysInMonth(y, m) ==
    IF m = 1 THEN (IF IsLeap(y) THEN 29 ELSE 28)
    ELSE IF m \in {3, 5, 8, 10} THEN 30 ELSE 31

DayFromYear(y) ==
    365 * (y - 1970) + ((y - 1969) \div 4) - ((y - 1901) \div 100)
        + ((y - 1601) \div 400)

RECURSIVE DaysBeforeMonth(_, _)
DaysBeforeMonth(y, m) ==
    IF m = 0 THEN 0 ELSE DaysBeforeMonth(y, m - 1) + DaysInMonth(y, m - 1)

\* MakeDay of ECMAScript: month and day may lie outside their usual range.
MakeDay(y, m, d) ==
    LET ym == y + (m \div 12)
        mn == m % 12
    IN  DayFromYear(ym) + DaysBeforeMonth(ym, mn) + d - 1

MakeDate(day, timeInDay) == day * TicksPerDay + timeInDay

DayOf(t) == t \div TicksPerDay
TimeInDay(t) == t % TicksPerDay

YearFromDay(o) ==
    CHOOSE y \in (FirstYear - 3)..(FirstYear + 4) :
        DayFromYear(y) <= o /\ o < DayFromYear(y + 1)

MonthFromDay(o) ==
    LET y == YearFromDay(o)
        doy == o - DayFromYear(y)
    IN  CHOOSE m \in 0..11 :
            DaysBeforeMonth(y, m) <= doy /\ doy < DaysBeforeMonth(y, m + 1)

DateFromDay(o) ==
    LET y == YearFromDay(o)
    IN  o - DayFromYear(y) - DaysBeforeMonth(y, MonthFromDay(o)) + 1

getFullYear(t) == YearFromDay(DayOf(t))
getMonth(t) == MonthFromDay(DayOf(t))
getDate(t) == DateFromDay(DayOf(t))

setDate(t, d) == MakeDate(MakeDay(getFullYear(t), getMonth(t), d), TimeInDay(t))
setMonth(t, m) == MakeDate(MakeDay(getFullYear(t), m, getDate(t)), TimeInDay(t))

(***************************************************************************)
(* utils.js: getDateRange                                                  *)
(***************************************************************************)
HasMonth(ms, month, year) ==
    \E i \in DOMAIN ms : ms[i].month = month /\ ms[i].year = year

PushMonthFront(ms, month, year) ==
    IF ~HasMonth(ms, month, year)
    THEN <<[month |-> month, year |-> year]>> \o ms
    ELSE ms

\* if (!months.some(...)) months.push({ month, year })
PushMonth(ms, month, year) ==
    IF ~HasMonth(ms, month, year)
    THEN Append(ms, [month |-> month, year |-> year])
    ELSE ms

\* while (current <= endDate) { ...; current.setMonth(current.getMonth() + 1) }
RECURSIVE WalkMonths(_, _, _)
WalkMonths(current, end, ms) ==
    IF current <= end
    THEN WalkMonths(setMonth(current, getMonth(current) + 1), end,
                    PushMonth(ms, getMonth(current) + 1, getFullYear(current)))
    ELSE ms

\* The two readings of the clock are the two 'new Date()' calls.
getDateRange(d, clock1, clock2) ==
    LET end == clock1
        start == setDate(clock2, getDate(clock2) - d)
    IN  [months |-> WalkMonths(start, end, <<>>),
         startDate |-> start,
         endDate |-> end]

(***************************************************************************)
(* attendance.js: the month payload and extractAbsentDays                  *)
(*                                                                         *)
(* A payload is [shape, DailyAttendanceSummary, CountDetails]: shape says  *)
(* which optional parts of the JSON are there ("full", "noCounts",         *)
(* "noSummary", "noData").  A day entry is [Date, DailyAttendanceStatus];  *)
(* Date is the calendar day the YYYY-MM-DD string names, NoDate when       *)
(* ShiftDetails or its Date is missing.  A status is [TagType, TagName].   *)
(* A null day or status entry carries the extra field isNull.              *)
(***************************************************************************)
TAG_TYPES ==
    [PRESENT |-> 1, ABSENT |-> 3, WEEKLY_OFF |-> 5, HOLIDAY |-> 7, LEAVE |-> 9]

Undefined == "undefined"
NoDate == 0

\* new Date(dateStr) of a date-only string is midnight UTC of that day; in
\* local time that is tzOffset ticks after local midnight.
NewDateFromString(dateStr) == MakeDate(dateStr, 0) + tzOffset

isDateInRange(dateStr, start, end) ==
    LET date == NewDateFromString(dateStr)
    IN  date >= start /\ date <= end

\* status.TagName || 'Absent'
TagLabel(status) ==
    IF status.TagName = Undefined \/ status.TagName = ""
    THEN "Absent"
    ELSE status.TagName

RECURSIVE AllAbsentOfDay(_, _)
AllAbsentOfDay(date, statuses) ==
    IF statuses = <<>> THEN <<>>
    ELSE (IF Head(statuses).TagType = TAG_TYPES.ABSENT
          THEN <<[date |-> date, status |-> TagLabel(Head(statuses))]>>
          ELSE <<>>) \o AllAbsentOfDay(date, Tail(statuses))

\* for (const status of statuses) { if (TagType === ABSENT) { push; break } }
RECURSIVE FirstAbsentOfDay(_, _)
FirstAbsentOfDay(date, statuses) ==
    IF statuses = <<>> THEN <<>>
    ELSE IF Head(statuses).TagType = TAG_TYPES.ABSENT
         THEN <<[date |-> date, status |-> TagLabel(Head(statuses))]>>
         ELSE FirstAbsentOfDay(date, Tail(statuses))

\* for (const day of data.Data.DailyAttendanceSummary) { ... }
RECURSIVE ExtractFromDays(_, _, _)
ExtractFromDays(entries, start, end) ==
    IF entries = <<>> THEN <<>>
    ELSE LET day == Head(entries)
             date == day.Date
         IN  (IF date = NoDate \/ ~isDateInRange(date, start, end)
              THEN <<>>
              ELSE FirstAbsentOfDay(date, day.DailyAttendanceStatus))
             \o ExtractFromDays(Tail(entries), start, end)

extractAbsentDays(d, start, end) ==
    IF d.shape \in {"noData", "noSummary"}
    THEN <<>>
    ELSE ExtractFromDays(d.DailyAttendanceSummary, start, end)

\* A null element of DailyAttendanceSummary and a null element of a day's
\* DailyAttendanceStatus.
NullDay == [Date |-> NoDate, DailyAttendanceStatus |-> <<>>, isNull |-> TRUE]
NullStatus == [TagType |-> 0, TagName |-> Undefined, isNull |-> TRUE]
IsNull(x) == "isNull" \in DOMAIN x

\* for (const status of statuses) { if (status.TagType === ...) }: reading
\* TagType of a null status throws, unless the loop broke before it.
RECURSIVE StatusThrows(_)
StatusThrows(statuses) ==
    IF statuses = <<>> THEN FALSE
    ELSE IF IsNull(Head(statuses)) THEN TRUE
    ELSE IF Head(statuses).TagType = TAG_TYPES.ABSENT THEN FALSE
    ELSE StatusThrows(Tail(statuses))

\* const date = day.ShiftDetails?.Date: reading ShiftDetails of a null day
\* throws.
RECURSIVE DaysThrow(_, _, _)
DaysThrow(entries, start, end) ==
    IF entries = <<>> THEN FALSE
    ELSE LET day == Head(entries)
         IN  IF IsNull(day) THEN TRUE
             ELSE IF /\ day.Date # NoDate
                     /\ isDateInRange(day.Date, start, end)
                     /\ StatusThrows(day.DailyAttendanceStatus)
             THEN TRUE
             ELSE DaysThrow(Tail(entries), start, end)

\* Does extractAbsentDays(d, start, end) throw a TypeError.
extractAbsentDaysThrows(d, start, end) ==
    /\ d.shape \notin {"noData", "noSummary"}
    /\ DaysThrow(d.DailyAttendanceSummary, start, end)

\* CountDetails with the given AbsentCount.
CountsOf(n) ==
    [PresentCount |-> 0, AbsentCount |-> n, LeaveCount |-> 0,
     HolidayCount |-> 0, WeeklyOffCount |-> 0]

PayloadOf(entries, n) ==
    [shape |-> "full", DailyAttendanceSummary |-> entries,
     CountDetails |-> CountsOf(n)]

\* The value of data before any response has arrived.
NoPayload ==
    [shape |-> "noData", DailyAttendanceSummary |-> <<>>,
     CountDetails |-> CountsOf(0)]

(***************************************************************************)
(* browser-auth.js: session.json and the stored-credential loaders.        *)
(*                                                                         *)
(* session.json is [state, hrAtk, xsrf, hrMid]: state is "absent" (no      *)
(* file), "corrupt" (JSON.parse throws) or "ok".  The hr_atk cookie is     *)
(* [value, kind, exp]: kind "jwt" has a payload with exp (in minutes),     *)
(* "noExp" a payload without exp, "malformed" no decodable payload and     *)
(* "none" means the cookie is not there.  Time here is in minutes.         *)
(***************************************************************************)
BufferMinutes == 5
DefaultMappingId == "P4D9T6HA"

NoCookie == [value |-> Undefined, kind |-> "none", exp |-> 0]
Jwt(v, e) == [value |-> v, kind |-> "jwt", exp |-> e]

NoFile ==
    [state |-> "absent", hrAtk |-> NoCookie, xsrf |-> Undefined,
     hrMid |-> Undefined]
CorruptFile ==
    [state |-> "corrupt", hrAtk |-> NoCookie, xsrf |-> Undefined,
     hrMid |-> Undefined]
FileOf(atk, xsrf, mid) ==
    [state |-> "ok", hrAtk |-> atk, xsrf |-> xsrf, hrMid |-> mid]

NullTokens ==
    [kind |-> "null", accessToken |-> Undefined, xsrfToken |-> Undefined,
     mappingId |-> Undefined]
NeedsRefresh ==
    [kind |-> "needsRefresh", accessToken |-> Undefined,
     xsrfToken |-> Undefined, mappingId |-> Undefined]

TokensOfDefaultMapping(jar) ==
    [kind |-> "tokens", accessToken |-> jar.hrAtk.value,
     xsrfToken |-> jar.xsrf, mappingId |-> DefaultMappingId]

\* { accessToken: hrAtk.value, xsrfToken: xsrf.value,
\*   mappingId: hrMid?.value || 'P4D9T6HA' }
TokensOf(jar) ==
    [kind |-> "tokens", accessToken |-> jar.hrAtk.value,
     xsrfToken |-> jar.xsrf,
     mappingId |-> IF jar.hrMid = Undefined THEN DefaultMappingId
                   ELSE jar.hrMid]

MissingAccessTokenOnly(jar) == jar.hrAtk.kind = "none"

\* if (!hrAtk || !xsrf)
MissingRequired(jar) == jar.hrAtk.kind = "none" \/ jar.xsrf = Undefined

\* The loader of the revision that refreshes through the browser only when
\* needed: expires.getTime() - buffer > Date.now()
getValidTokensFromFile(f, clock) ==
    IF f.state # "ok" THEN NullTokens
    ELSE IF MissingRequired(f) THEN NullTokens
    ELSE IF f.hrAtk.kind = "jwt" /\ f.hrAtk.exp - BufferMinutes > clock
         THEN TokensOf(f)
         ELSE NeedsRefresh

\* The loader of the revision with the portable session file: a token is
\* rejected only if (expires < new Date()); a payload without exp gives an
\* invalid Date, which compares false, and a decode error is ignored.
extractTokensFromFile(f, clock) ==
    IF f.state # "ok" THEN NullTokens
    ELSE IF MissingRequired(f) THEN NullTokens
    ELSE IF f.hrAtk.kind = "jwt" /\ f.hrAtk.exp < clock
         THEN NullTokens
         ELSE TokensOf(f)

SavedSessionKeepsXsrf(jar) == FileOf(jar.hrAtk, "xsrf-stored", jar.hrMid)

\* fs.writeFileSync(SESSION_FILE, JSON.stringify({ exportedAt, cookies:
\* updatedCookies })): the cookies read back replace the file's.
SavedSession(jar) == FileOf(jar.hrAtk, jar.xsrf, jar.hrMid)

hasSession(module, f, profile) ==
    IF module = "portable"
    THEN f.state # "absent" \/ profile
    ELSE f.state # "absent"

\* The callers of an exported browser function within one process.
Callers == {1, 2}

\* A call that has not started: no browser, no cookies read, no result.
IdleCall ==
    [pc |-> "idle", step |-> 0, browser |-> "none", cookies |-> <<>>,
     cached |-> NullTokens, result |-> NullTokens]

\* The values of the main workflow's variables before main starts; the
\* specifications of the single functions leave them there.
MainIdle ==
    /\ isTestMode = FALSE
    /\ isEmailTest = FALSE
    /\ authModule = "cached"
    /\ emailConfig = TRUE
    /\ sessionFile = NoFile
    /\ profileDir = FALSE
    /\ tokens = NullTokens
    /\ tokenSource = "none"
    /\ browsersLaunched = 0
    /\ browsersClosed = 0
    /\ cookies = <<>>
    /\ callee = "main"
    /\ calls = [c \in Callers |-> IdleCall]
    /\ idx = 0
    /\ requests = <<>>
    /\ allAbsentDays = <<>>
    /\ totalAbsentCount = 0
    /\ monthlySummaries = <<>>
    /\ result = <<>>
    /\ error = <<>>
    /\ mails = <<>>
    /\ exitCode = 0

(***************************************************************************)
(* Specification of getDateRange alone: the inputs are the lookback and    *)
(* the clock, the action is one call.                                      *)
(***************************************************************************)
FirstToday == MakeDay(FirstYear, 0, 1)
Todays == FirstToday..(FirstToday + NumTodays - 1)
Clocks == {MakeDate(d, t) : d \in Todays, t \in 0..(TicksPerDay - 1)}

InitRange ==
    /\ pc = "getDateRange"
    /\ now \in Clocks
    /\ days \in 0..MaxDays
    /\ endDate = None
    /\ startDate = None
    /\ months = <<>>
    /\ tzOffset = 0
    /\ data = NoPayload
    /\ absentDays = <<>>
    /\ MainIdle

CallGetDateRange ==
    /\ pc = "getDateRange"
    /\ \E skew \in 0..MaxClockSkew :
         LET r == getDateRange(days, now, now + skew)
         IN  /\ now' = now + skew
             /\ endDate' = r.endDate
             /\ startDate' = r.startDate
             /\ months' = r.months
    /\ pc' = "returned"
    /\ UNCHANGED <<days, extractVars, mainVars>>

NextRange == CallGetDateRange

SpecRange == InitRange /\ [][NextRange]_vars

\* The place of a (month, year) pair on the calendar.
MonthIndex(m) == m.year * 12 + m.month

\* The (month, year) pair a calendar day belongs to.
MonthOfDay(o) == [month |-> MonthFromDay(o) + 1, year |-> YearFromDay(o)]

\* C3: every calendar day of [startDate, endDate] belongs to exactly one
\* (month, year) pair of the months list returned by getDateRange (the
\* interval has no day at all when startDate is after endDate).
MonthsCoverWindow ==
    (pc = "returned" /\ startDate <= endDate) =>
        \A o \in DayOf(startDate)..DayOf(endDate) :
            Cardinality({i \in DOMAIN months : months[i] = MonthOfDay(o)}) = 1

\* C4: for a window spanning 1 to 3 calendar months the months list has no
\* duplicate pair and is in strictly increasing chronological order.
MonthsStrictlyIncreasing ==
    (/\ pc = "returned"
     /\ MonthIndex(MonthOfDay(DayOf(endDate)))
          - MonthIndex(MonthOfDay(DayOf(startDate))) \in 0..2)
    => \A i, j \in DOMAIN months :
           i < j => MonthIndex(months[i]) < MonthIndex(months[j])

\* C4 witness: a returned list that crosses the December to January boundary.
MonthsAcrossNewYear ==
    /\ pc = "returned"
    /\ Len(months) = 2
    /\ months[1].month = 12
    /\ months[2].month = 1
    /\ months[2].year = months[1].year + 1

\* C5: every window produced by getDateRange has startDate <= endDate.
StartNotAfterEnd ==
    pc = "returned" => startDate <= endDate

(***************************************************************************)
(* Specification of extractAbsentDays alone: the inputs are a window that  *)
(* getDateRange(31) returns, the time zone and a month payload whose day   *)
(* entries are dated around the two ends of the window.                    *)
(***************************************************************************)
DefaultDays == 31

TzOffsets == {-1, 0, 1}

Present == [TagType |-> TAG_TYPES.PRESENT, TagName |-> "Present"]
Absent(name) == [TagType |-> TAG_TYPES.ABSENT, TagName |-> name]

StatusLists ==
    { <<Present>>,
      <<Absent("LOP")>>,
      <<Present, Absent(Undefined)>>,
      <<Absent("Unplanned"), Absent("LOP")>>,
      <<Absent("")>>,
      <<NullStatus>>,
      <<Absent("LOP"), NullStatus>> }

\* The calendar days next to the ends of the window [s, e].
EdgeDays(s, e) ==
    {DayOf(s) - 1, DayOf(s), DayOf(s) + 1, DayOf(e), DayOf(e) + 1}

DayEntries(s, e) ==
    {[Date |-> d, DailyAttendanceStatus |-> st] :
        d \in EdgeDays(s, e), st \in StatusLists}
    \cup {[Date |-> NoDate, DailyAttendanceStatus |-> <<Absent("LOP")>>],
          NullDay}

SeqsUpTo(S, n) == UNION {[1..k -> S] : k \in 0..n}

ExtractPayloads(s, e) ==
    {PayloadOf(q, 0) : q \in SeqsUpTo(DayEntries(s, e), MaxEntries)}
    \cup {[shape |-> "noSummary", DailyAttendanceSummary |-> <<>>,
           CountDetails |-> CountsOf(0)]}

\* One day in the middle of the explored range of "today".
ExtractToday == FirstToday + (NumTodays \div 2)

InitExtract ==
    /\ pc = "extractAbsentDays"
    /\ now \in {MakeDate(ExtractToday, t) : t \in 0..(TicksPerDay - 1)}
    /\ days = DefaultDays
    /\ LET r == getDateRange(days, now, now)
       IN  /\ endDate = r.endDate
           /\ startDate = r.startDate
           /\ months = r.months
           /\ data \in ExtractPayloads(r.startDate, r.endDate)
    /\ tzOffset \in TzOffsets
    /\ absentDays = <<>>
    /\ MainIdle

CallExtractAbsentDays ==
    /\ pc = "extractAbsentDays"
    /\ IF extractAbsentDaysThrows(data, startDate, endDate)
       THEN pc' = "threw" /\ UNCHANGED absentDays
       ELSE /\ absentDays' = extractAbsentDays(data, startDate, endDate)
            /\ pc' = "extracted"
    /\ UNCHANGED <<rangeVars, tzOffset, data, mainVars>>

NextExtract == CallExtractAbsentDays

SpecExtract == InitExtract /\ [][NextExtract]_vars

HasAbsentTag(day) ==
    \E k \in DOMAIN day.DailyAttendanceStatus :
        day.DailyAttendanceStatus[k].TagType = TAG_TYPES.ABSENT

\* The day's calendar date lies in [startDate, endDate], ends included.
InWindowDay(d) == DayOf(startDate) <= d /\ d <= DayOf(endDate)

\* C7: extractAbsentDays has a record for a day carrying an absent tag if
\* and only if the day's calendar date lies in [startDate, endDate].
ExtractKeepsExactlyWindowDays ==
    (pc = "extracted" /\ data.shape = "full") =>
        \A i \in DOMAIN data.DailyAttendanceSummary :
            LET day == data.DailyAttendanceSummary[i]
            IN  (day.Date # NoDate /\ HasAbsentTag(day)) =>
                    ((\E r \in DOMAIN absentDays :
                          absentDays[r].date = day.Date)
                     <=> InWindowDay(day.Date))

\* The label of the first absent tag of a status list.
RECURSIVE FirstAbsentLabel(_)
FirstAbsentLabel(statuses) ==
    IF Head(statuses).TagType = TAG_TYPES.ABSENT
    THEN (IF Head(statuses).TagName \in {Undefined, ""}
          THEN "Absent" ELSE Head(statuses).TagName)
    ELSE FirstAbsentLabel(Tail(statuses))

\* The payload is one day entry that passes the window filter.
OneEntryInWindow ==
    /\ pc = "extracted"
    /\ data.shape = "full"
    /\ Len(data.DailyAttendanceSummary) = 1
    /\ data.DailyAttendanceSummary[1].Date # NoDate
    /\ isDateInRange(data.DailyAttendanceSummary[1].Date, startDate, endDate)

\* C9: for one in-window day entry, extractAbsentDays emits exactly one
\* record if a tag of the entry has the absent type (3) and none otherwise;
\* the record's status is the TagName of the first absent tag, or 'Absent'
\* when that TagName is missing (undefined or empty).
OneRecordPerEntryFirstTagWins ==
    OneEntryInWindow =>
        LET day == data.DailyAttendanceSummary[1]
        IN  IF HasAbsentTag(day)
            THEN /\ Len(absentDays) = 1
                 /\ absentDays[1].date = day.Date
                 /\ absentDays[1].status =
                        FirstAbsentLabel(day.DailyAttendanceStatus)
            ELSE absentDays = <<>>

\* C9 witness: an in-window entry with two absent tags gave one record,
\* labelled by the first of them.
TwoAbsentTagsOneRecord ==
    /\ OneEntryInWindow
    /\ data.DailyAttendanceSummary[1].DailyAttendanceStatus
           = <<Absent("Unplanned"), Absent("LOP")>>
    /\ absentDays = <<[date |-> data.DailyAttendanceSummary[1].Date,
                       status |-> "Unplanned"]>>

(***************************************************************************)
(* index.js: main.  checkAttendance of attendance.js is inlined at its     *)
(* call, one action per await.                                             *)
(***************************************************************************)
StartMinute == 100     \* the minute at which the run reads Date.now()

ExpiryOffsets == {-10, 4, 5, 6, 10}

StoredAtk(kind, exp) == [value |-> "atk-stored", kind |-> kind, exp |-> exp]

SessionFiles ==
    {NoFile, CorruptFile}
    \cup {FileOf(StoredAtk("jwt", StartMinute + o), "xsrf-stored", "M0") :
             o \in ExpiryOffsets}
    \cup {FileOf(StoredAtk(k, 0), "xsrf-stored", "M0") :
             k \in {"noExp", "malformed"}}
    \cup {FileOf(StoredAtk("jwt", StartMinute + 10), Undefined, "M0"),
          FileOf(StoredAtk("jwt", StartMinute + 10), "xsrf-stored", Undefined)}

\* What page.cookies() may return after the navigation.
FreshAtk == Jwt("atk-fresh", StartMinute + 60)
BrowserJars ==
    { [hrAtk |-> FreshAtk, xsrf |-> "xsrf-fresh", hrMid |-> "M1"],
      [hrAtk |-> FreshAtk, xsrf |-> "xsrf-fresh", hrMid |-> Undefined],
      [hrAtk |-> NoCookie, xsrf |-> "xsrf-fresh", hrMid |-> "M1"],
      [hrAtk |-> FreshAtk, xsrf |-> Undefined, hrMid |-> "M1"] }

MailSentDespiteRejection(kind, delivered, errorType) ==
    [kind |-> kind, delivered |-> TRUE, errorType |-> errorType]

\* An e-mail handed to transporter.sendMail; delivered tells whether
\* sendMail resolved.
Mail(kind, delivered, errorType) ==
    [kind |-> kind, delivered |-> delivered, errorType |-> errorType]

\* The responses of the summary endpoint that are not ok, and a fetch that
\* rejects (DNS failure, timeout); mentions is the set of the words main
\* looks for that the response text, or the message of the rejection,
\* contains.  The built-in fetch rejects with the message 'fetch failed'.
FetchFailures ==
    { [source |-> "http", status |-> 401, mentions |-> {}],
      [source |-> "http", status |-> 403, mentions |-> {}],
      [source |-> "http", status |-> 500, mentions |-> {}],
      [source |-> "http", status |-> 500, mentions |-> {"401"}],
      [source |-> "http", status |-> 500, mentions |-> {"network"}],
      [source |-> "network", status |-> 0, mentions |-> {}],
      [source |-> "network", status |-> 0, mentions |-> {"ENOTFOUND"}] }

SmtpFailure == [source |-> "smtp", status |-> 0, mentions |-> {}]

\* TypeError: Cannot read properties of null (reading 'ShiftDetails')
PayloadTypeError == [source |-> "payload", status |-> 0, mentions |-> {}]

\* error.message.includes(word), the message of a response that is not ok
\* being `Failed to fetch attendance: ${response.status} - ${text}`
MessageIncludes(e, word) ==
    \/ word \in e.mentions
    \/ e.source = "http" /\ e.status = 401 /\ word = "401"
    \/ e.source = "http" /\ e.status = 403 /\ word = "403"

ErrorType(e) ==
    IF MessageIncludes(e, "401") \/ MessageIncludes(e, "403") THEN "auth"
    ELSE IF \/ MessageIncludes(e, "ENOTFOUND")
            \/ MessageIncludes(e, "ETIMEDOUT")
            \/ MessageIncludes(e, "network")
         THEN "network"
         ELSE "unknown"

AbsentEntry(d) == [Date |-> d, DailyAttendanceStatus |-> <<Absent("LOP")>>]

\* The month payloads explored by a run, for the window [s, e].
RunPayloads(s, e) ==
    { PayloadOf(<<>>, 0),
      PayloadOf(<<AbsentEntry(DayOf(s) + 1)>>, 1),
      PayloadOf(<<AbsentEntry(DayOf(s) - 1)>>, 1),
      PayloadOf(<<AbsentEntry(DayOf(s) + 1), AbsentEntry(DayOf(s) + 1)>>, 1),
      PayloadOf(<<AbsentEntry(DayOf(e)), AbsentEntry(DayOf(s) + 1)>>, 2),
      PayloadOf(<<AbsentEntry(DayOf(s) + 1), NullDay>>, 1),
      NoPayload,
      [shape |-> "noSummary", DailyAttendanceSummary |-> <<>>,
       CountDetails |-> CountsOf(0)] }

\* monthlySummaries.push({ month, year, present: ..., ... })
SummaryOf(m, d) ==
    LET c == IF d.shape \in {"noData", "noCounts"} THEN CountsOf(0)
             ELSE d.CountDetails
    IN  [month |-> m.month, year |-> m.year,
         present |-> c.PresentCount, absent |-> c.AbsentCount,
         leave |-> c.LeaveCount, holiday |-> c.HolidayCount,
         weeklyOff |-> c.WeeklyOffCount]

\* if (countDetails?.AbsentCount) totalAbsentCount += countDetails.AbsentCount
AddAbsentCount(total, d) ==
    IF d.shape \in {"noData", "noCounts"} THEN total
    ELSE total + d.CountDetails.AbsentCount

MonthAtReversed(ms, i) == ms[Len(ms) + 1 - i]

\* for (const { month, year } of months): the month of the i-th iteration
MonthAt(ms, i) == ms[i]

SameMonthIndex(i) == i

\* ... and the step to the next iteration.
NextMonthIndex(i) == i + 1

getAuthHeadersDefaultMapping(t) ==
    [accessToken |-> t.accessToken, xsrfToken |-> t.xsrfToken,
     mappingId |-> DefaultMappingId]

\* The credential fields that getAuthHeaders() and getCookieHeader() read
\* from config.hrms for a request.
getAuthHeaders(t) ==
    [accessToken |-> t.accessToken, xsrfToken |-> t.xsrfToken,
     mappingId |-> t.mappingId]

FailureStepSwallowed(i) == [pc |-> "fetch", idx |-> i + 1]

\* checkAttendance: catch (error) { console.error(...); throw error; }
FailureStep(i) == [pc |-> "catch", idx |-> i]

ShouldAlertAlways(absent, testMode) == ~testMode

\* main: result.absentDays.length !== 0 and !isTestMode
ShouldAlert(absent, testMode) == absent # <<>> /\ ~testMode

\* One day in the middle of the explored range of "today".
RunToday == FirstToday + (NumTodays \div 2)

Init ==
    /\ pc = "main"
    /\ now \in {MakeDate(RunToday, t) : t \in 0..(TicksPerDay - 1)}
    /\ days = DefaultDays
    /\ endDate = None
    /\ startDate = None
    /\ months = <<>>
    /\ tzOffset \in TzOffsets
    /\ data = NoPayload
    /\ absentDays = <<>>
    /\ isTestMode \in BOOLEAN
    /\ isEmailTest \in BOOLEAN
    /\ authModule \in {"cached", "portable"}
    /\ emailConfig \in BOOLEAN
    /\ sessionFile \in SessionFiles
    /\ profileDir \in BOOLEAN
    /\ tokens = NullTokens
    /\ tokenSource = "none"
    /\ browsersLaunched = 0
    /\ browsersClosed = 0
    /\ cookies = <<>>
    /\ callee = "main"
    /\ calls = [c \in Callers |-> IdleCall]
    /\ idx = 0
    /\ requests = <<>>
    /\ allAbsentDays = <<>>
    /\ totalAbsentCount = 0
    /\ monthlySummaries = <<>>
    /\ result = <<>>
    /\ error = <<>>
    /\ mails = <<>>
    /\ exitCode = 0

checkVars ==
    <<idx, requests, allAbsentDays, totalAbsentCount, monthlySummaries,
      result>>
envVars == <<isTestMode, isEmailTest, authModule, emailConfig, profileDir>>
browserVars == <<browsersLaunched, browsersClosed, cookies>>
callVars == <<callee, calls>>

\* if (!hasSession()) { ... }
CheckSession ==
    /\ pc = "main"
    /\ pc' = IF hasSession(authModule, sessionFile, profileDir)
             THEN "extractTokens" ELSE "noSession"
    /\ UNCHANGED <<rangeVars, extractVars, mainVars>>

\* try { await sendSessionExpiredAlert() } catch { ... }; process.exit(1)
SessionAlert ==
    /\ pc \in {"noSession", "noTokens"}
    /\ \E delivered \in BOOLEAN :
         mails' = Append(mails, Mail("sessionExpired", delivered, ""))
    /\ pc' = "exited"
    /\ exitCode' = 1
    /\ UNCHANGED <<rangeVars, extractVars, envVars, callVars,
                   sessionFile, tokens,
                   tokenSource, browserVars, checkVars, error>>

\* The return of extractTokensFromBrowser to main: null, or setTokens(tokens).
ReturnTokens(t, source) ==
    IF t.kind = "tokens"
    THEN /\ tokens' = t
         /\ tokenSource' = source
         /\ pc' = "validateConfig"
    ELSE /\ UNCHANGED <<tokens, tokenSource>>
         /\ pc' = "noTokens"

\* puppeteer.launch rejects: the rejection leaves extractTokensFromBrowser
\* and main, and main().catch(console.error) lets the process end normally.
LaunchFails ==
    /\ error' = <<[source |-> "launch", status |-> 0, mentions |-> {}]>>
    /\ pc' = "exited"
    /\ exitCode' = 0
    /\ UNCHANGED <<tokens, tokenSource, sessionFile, browserVars>>

\* extractTokensFromBrowser of the revision with getValidTokensFromFile.
ExtractTokensCached ==
    /\ pc = "extractTokens"
    /\ authModule = "cached"
    /\ LET cached == getValidTokensFromFile(sessionFile, StartMinute)
       IN  IF cached.kind = "tokens"
           THEN /\ ReturnTokens(cached, "file")
                /\ UNCHANGED <<sessionFile, browserVars, error>>
           ELSE \/ LaunchFails
                \/ /\ browsersLaunched' = browsersLaunched + 1
                   /\ browsersClosed' = browsersClosed + 1
                   /\ UNCHANGED error
                   /\ IF cached.kind = "null"
                      THEN \* cached.cookies of null throws inside the try
                           /\ ReturnTokens(NullTokens, "none")
                           /\ UNCHANGED <<sessionFile, cookies>>
                      ELSE \/ \* setCookie, goto or cookies throws
                              /\ ReturnTokens(NullTokens, "none")
                              /\ UNCHANGED <<sessionFile, cookies>>
                           \/ \E jar \in BrowserJars :
                                /\ cookies' = <<jar>>
                                /\ IF MissingRequired(jar)
                                   THEN /\ ReturnTokens(NullTokens, "none")
                                        /\ UNCHANGED sessionFile
                                   ELSE /\ sessionFile' = SavedSession(jar)
                                        /\ ReturnTokens(TokensOf(jar),
                                                        "browser")
    /\ UNCHANGED <<rangeVars, extractVars, envVars, callVars, checkVars, mails>>
    /\ (pc' # "exited" => UNCHANGED exitCode)

\* extractTokensFromBrowser of the revision with extractTokensFromFile.
ExtractTokensPortable ==
    /\ pc = "extractTokens"
    /\ authModule = "portable"
    /\ LET fileTokens == extractTokensFromFile(sessionFile, StartMinute)
       IN  IF fileTokens.kind = "tokens"
           THEN /\ ReturnTokens(fileTokens, "file")
                /\ UNCHANGED <<browserVars, error>>
           ELSE IF ~profileDir
           THEN /\ ReturnTokens(NullTokens, "none")
                /\ UNCHANGED <<browserVars, error>>
           ELSE \/ LaunchFails
                \/ /\ browsersLaunched' = browsersLaunched + 1
                   /\ browsersClosed' = browsersClosed + 1
                   /\ UNCHANGED error
                   /\ \/ /\ ReturnTokens(NullTokens, "none")
                         /\ UNCHANGED cookies
                      \/ \E jar \in BrowserJars :
                           /\ cookies' = <<jar>>
                           /\ IF MissingRequired(jar)
                              THEN ReturnTokens(NullTokens, "none")
                              ELSE ReturnTokens(TokensOf(jar), "browser")
    /\ UNCHANGED <<rangeVars, extractVars, envVars, callVars,
                   sessionFile, checkVars,
                   mails>>
    /\ (pc' # "exited" => UNCHANGED exitCode)

\* const validation = validateConfig(); if (!validation.valid) exit(1)
ValidateConfig ==
    /\ pc = "validateConfig"
    /\ IF ~emailConfig
       THEN pc' = "exited" /\ exitCode' = 1
       ELSE /\ pc' = IF isEmailTest THEN "testEmail" ELSE "checkAttendance"
            /\ UNCHANGED exitCode
    /\ UNCHANGED <<rangeVars, extractVars, envVars, callVars,
                   sessionFile, tokens,
                   tokenSource, browserVars, checkVars, error, mails>>

\* if (isEmailTest) { try { await sendTestEmail() } catch { exit(1) } return }
TestEmail ==
    /\ pc = "testEmail"
    /\ \E delivered \in BOOLEAN :
         /\ mails' = Append(mails, Mail("test", delivered, ""))
         /\ exitCode' = IF delivered THEN 0 ELSE 1
    /\ pc' = "exited"
    /\ UNCHANGED <<rangeVars, extractVars, envVars, callVars,
                   sessionFile, tokens,
                   tokenSource, browserVars, checkVars, error>>

\* checkAttendance(): const { months, startDate, endDate } = getDateRange(days)
StartCheck ==
    /\ pc = "checkAttendance"
    /\ \E skew \in 0..MaxClockSkew :
         LET r == getDateRange(days, now, now + skew)
         IN  /\ now' = now + skew
             /\ endDate' = r.endDate
             /\ startDate' = r.startDate
             /\ months' = r.months
    /\ idx' = 1
    /\ pc' = "fetch"
    /\ UNCHANGED <<days, extractVars, envVars, callVars, sessionFile, tokens,
                   tokenSource, browserVars, requests, allAbsentDays,
                   totalAbsentCount, monthlySummaries, result, error, mails,
                   exitCode>>

\* fetchMonthlyAttendance(month, year): the request leaves with the headers
\* of getAuthHeaders() and getCookieHeader().
IssueRequest ==
    /\ pc = "fetch"
    /\ idx <= Len(months)
    /\ requests' = Append(requests,
           [month |-> MonthAt(months, idx).month,
            year |-> MonthAt(months, idx).year,
            accessToken |-> getAuthHeaders(tokens).accessToken,
            xsrfToken |-> getAuthHeaders(tokens).xsrfToken,
            mappingId |-> getAuthHeaders(tokens).mappingId])
    /\ pc' = "awaitResponse"
    /\ UNCHANGED <<rangeVars, extractVars, envVars, callVars,
                   sessionFile, tokens,
                   tokenSource, browserVars, idx, allAbsentDays,
                   totalAbsentCount, monthlySummaries, result, error, mails,
                   exitCode>>

\* The response arrives: not ok (or the fetch rejects) and the error is
\* thrown, or the payload is summarised and its absent days are appended.
ReceiveResponse ==
    /\ pc = "awaitResponse"
    /\ \/ \E f \in FetchFailures :
            /\ error' = <<f>>
            /\ pc' = FailureStep(idx).pc
            /\ idx' = FailureStep(idx).idx
            /\ UNCHANGED <<data, absentDays, allAbsentDays, totalAbsentCount,
                           monthlySummaries>>
       \/ \E d \in RunPayloads(startDate, endDate) :
            /\ data' = d
            /\ totalAbsentCount' = AddAbsentCount(totalAbsentCount, d)
            /\ monthlySummaries' =
                   Append(monthlySummaries, SummaryOf(months[idx], d))
            /\ IF extractAbsentDaysThrows(d, startDate, endDate)
               THEN /\ error' = <<PayloadTypeError>>
                    /\ pc' = FailureStep(idx).pc
                    /\ idx' = FailureStep(idx).idx
                    /\ UNCHANGED <<absentDays, allAbsentDays>>
               ELSE /\ absentDays' = extractAbsentDays(d, startDate, endDate)
                    /\ allAbsentDays' =
                           allAbsentDays
                               \o extractAbsentDays(d, startDate, endDate)
                    /\ idx' = NextMonthIndex(idx)
                    /\ pc' = "fetch"
                    /\ UNCHANGED error
    /\ UNCHANGED <<rangeVars, tzOffset, envVars, callVars, sessionFile, tokens,
                   tokenSource, browserVars, requests, result, mails,
                   exitCode>>

\* return { absentDays: allAbsentDays, totalAbsent: allAbsentDays.length,
\*          summary: monthlySummaries }
ReturnResult ==
    /\ pc = "fetch"
    /\ idx > Len(months)
    /\ result' = <<[absentDays |-> allAbsentDays,
                    totalAbsent |-> Len(allAbsentDays),
                    summary |-> monthlySummaries]>>
    /\ pc' = "report"
    /\ UNCHANGED <<rangeVars, extractVars, envVars, callVars,
                   sessionFile, tokens,
                   tokenSource, browserVars, idx, requests, allAbsentDays,
                   totalAbsentCount, monthlySummaries, error, mails,
                   exitCode>>

\* main prints the summary, then sends the alert unless there is no absent
\* day or --test was given; sendAbsenceAlert rejecting lands in the catch.
Report ==
    /\ pc = "report"
    /\ IF ShouldAlert(result[1].absentDays, isTestMode)
       THEN \E delivered \in BOOLEAN :
              /\ mails' = Append(mails, Mail("absence", delivered, ""))
              /\ IF delivered
                 THEN pc' = "exited" /\ exitCode' = 0 /\ UNCHANGED error
                 ELSE pc' = "catch" /\ error' = <<SmtpFailure>>
                      /\ UNCHANGED exitCode
       ELSE /\ pc' = "exited"
            /\ exitCode' = 0
            /\ UNCHANGED <<mails, error>>
    /\ UNCHANGED <<rangeVars, extractVars, envVars, callVars,
                   sessionFile, tokens,
                   tokenSource, browserVars, checkVars>>

\* catch (error) { errorType = ...; try { await sendErrorAlert(...) }
\*                 catch { ... }; process.exit(1) }
Catch ==
    /\ pc = "catch"
    /\ \E delivered \in BOOLEAN :
         mails' = Append(mails, Mail("error", delivered, ErrorType(error[1])))
    /\ pc' = "exited"
    /\ exitCode' = 1
    /\ UNCHANGED <<rangeVars, extractVars, envVars, callVars,
                   sessionFile, tokens,
                   tokenSource, browserVars, checkVars, error>>

Next ==
    \/ CheckSession
    \/ SessionAlert
    \/ ExtractTokensCached
    \/ ExtractTokensPortable
    \/ ValidateConfig
    \/ TestEmail
    \/ StartCheck
    \/ IssueRequest
    \/ ReceiveResponse
    \/ ReturnResult
    \/ Report
    \/ Catch

Spec == Init /\ [][Next]_vars

AbsenceAlertDispatched ==
    \E i \in DOMAIN mails : mails[i].kind = "absence"

\* C1: in a run without --test in which the session, the configuration and
\* every month's fetch succeed, the absence alert is dispatched if and only
\* if the absentDays of the result is non-empty, and it is dispatched only
\* after every month of the months list has been requested and answered.
AlertIffAbsentAfterAllMonths ==
    /\ AbsenceAlertDispatched =>
           /\ ~isTestMode
           /\ result # <<>>
           /\ result[1].absentDays # <<>>
           /\ Len(requests) = Len(months)
           /\ Len(monthlySummaries) = Len(months)
    /\ (pc = "exited" /\ ~isTestMode /\ result # <<>>) =>
           (AbsenceAlertDispatched <=> result[1].absentDays # <<>>)

\* C1 witness: a finished run that fetched two months, found an absent day
\* and dispatched the alert.
AlertSentAfterTwoMonths ==
    /\ pc = "exited"
    /\ Len(months) = 2
    /\ Len(requests) = 2
    /\ result # <<>>
    /\ result[1].absentDays # <<>>
    /\ AbsenceAlertDispatched

FetchFailed ==
    error # <<>> /\ error[1].source \in {"http", "network"}

\* C2: once the fetch of the k-th month has failed, no request for a later
\* month is issued, checkAttendance yields no result and no absence alert is
\* sent.
NoPartialResultAfterFailure ==
    FetchFailed =>
        /\ Len(requests) = idx
        /\ result = <<>>
        /\ ~AbsenceAlertDispatched

\* C2 witness: the run ended after HTTP 401 on the second of two months, the
\* first month having contributed an absent day.
SecondMonthFailedWithPartialData ==
    /\ pc = "exited"
    /\ FetchFailed
    /\ error[1].status = 401
    /\ idx = 2
    /\ Len(months) = 2
    /\ allAbsentDays # <<>>
    /\ monthlySummaries # <<>>

\* C6: the window checked by main is the salary period: from the 26th of
\* today's month to the 25th of the next when today's day is 26 or more,
\* else from the 26th of the previous month to the 25th of today's month.
WindowIsSalaryPeriod ==
    pc \in {"fetch", "awaitResponse", "report"} =>
        LET y == getFullYear(endDate)
            m == getMonth(endDate)
        IN  IF getDate(endDate) >= 26
            THEN /\ DayOf(startDate) = MakeDay(y, m, 26)
                 /\ DayOf(endDate) = MakeDay(y, m + 1, 25)
            ELSE /\ DayOf(startDate) = MakeDay(y, m - 1, 26)
                 /\ DayOf(endDate) = MakeDay(y, m, 25)

\* C8: the absentDays returned by checkAttendance hold at most one record
\* per calendar date.
OneRecordPerDate ==
    result # <<>> =>
        \A i, j \in DOMAIN result[1].absentDays :
            i # j => result[1].absentDays[i].date # result[1].absentDays[j].date

\* C10: on every token-loading path, a stored credential whose expiry
\* decodes is used without refresh if and only if expiresAt - 5 minutes > now.
StoredTokenUsedIffOutsideBuffer ==
    [][(/\ pc = "extractTokens"
        /\ pc' # "extractTokens"
        /\ sessionFile.state = "ok"
        /\ ~MissingRequired(sessionFile)
        /\ sessionFile.hrAtk.kind = "jwt")
       => ((tokenSource' = "file")
           <=> (sessionFile.hrAtk.exp - BufferMinutes > StartMinute))]_vars

\* session.json holds hr_atk and XSRF-TOKEN, and the expiry of hr_atk cannot
\* be decoded.
UndecodableStored ==
    /\ sessionFile.state = "ok"
    /\ sessionFile.hrAtk.kind \in {"noExp", "malformed"}
    /\ sessionFile.xsrf # Undefined

\* C11: a stored credential whose expiry cannot be decoded is never returned
\* from the file as valid and is not rejected outright: the call goes on to
\* the refresh through the browser (the launch succeeds or fails).
UndecodableExpiryTakesRefresh ==
    [][(pc = "extractTokens" /\ pc' # "extractTokens" /\ UndecodableStored)
       => /\ tokenSource' # "file"
          /\ \/ browsersLaunched' = browsersLaunched + 1
             \/ error' # <<>>]_vars

\* session.json holds the three cookies and hr_atk expires more than five
\* minutes after the clock reading of the run.
StoredCredentialValid ==
    /\ sessionFile.state = "ok"
    /\ sessionFile.hrAtk.kind = "jwt"
    /\ sessionFile.hrAtk.exp - 5 > StartMinute
    /\ sessionFile.xsrf # Undefined
    /\ sessionFile.hrMid # Undefined

LoadStored(module, f, clock) ==
    IF module = "cached" THEN getValidTokensFromFile(f, clock)
    ELSE extractTokensFromFile(f, clock)

\* C14: whenever the refresh through the browser has returned a credential,
\* session.json holds that access token and XSRF token, and the loader of a
\* following run, started while the token is valid, returns the identical
\* credential from the file.
RefreshedCredentialPersisted ==
    tokenSource = "browser" =>
        /\ sessionFile.state = "ok"
        /\ sessionFile.hrAtk.value = tokens.accessToken
        /\ sessionFile.xsrf = tokens.xsrfToken
        /\ LoadStored(authModule, sessionFile, StartMinute) = tokens

\* C17: the error alert of a failed attendance check is typed 'auth' if and
\* only if the failing response had status 401 or 403, 'network' if and only
\* if the fetch failed at network level, and 'unknown' otherwise, whatever
\* the response text contains.
ClassifiedByStatusAndCause ==
    FetchFailed =>
        \A i \in DOMAIN mails :
            mails[i].kind = "error" =>
                mails[i].errorType =
                    IF error[1].source = "http" /\ error[1].status \in {401, 403}
                    THEN "auth"
                    ELSE IF error[1].source = "network" THEN "network"
                    ELSE "unknown"

\* C18: when SMTP_USER, SMTP_PASS or NOTIFY_EMAIL is missing, the run stops
\* at the report of the configuration error: no browser is launched, no
\* e-mail is handed to the transporter and no attendance request is issued.
ConfigErrorBeforeNetwork ==
    ~emailConfig =>
        /\ browsersLaunched = 0
        /\ mails = <<>>
        /\ requests = <<>>

\* C19: the process exits with code 1 when the run ended in a configuration
\* failure, in an authentication failure (no session, no tokens extracted,
\* or an error thrown while obtaining them) or in a fetch failure, and with
\* code 0 when checkAttendance returned its result.
ExitCodeReflectsOutcome ==
    pc = "exited" =>
        /\ (tokens.kind = "tokens" /\ ~emailConfig) => exitCode = 1
        /\ tokens.kind = "null" => exitCode = 1
        /\ FetchFailed => exitCode = 1
        /\ result # <<>> => exitCode = 0

\* C20: in a run started with --test no absence alert, error alert or
\* session-expired alert is handed to the transporter.
NoNotificationInTestMode ==
    isTestMode =>
        \A i \in DOMAIN mails :
            mails[i].kind \notin {"absence", "error", "sessionExpired"}

(***************************************************************************)
(* The functions that launch a browser, one action per await:              *)
(* extractTokensFromBrowser (both revisions), login of browser-login.js    *)
(* and importSession of import-session.js.  A call's record holds its      *)
(* position, the index of the page call it awaits, the state of the        *)
(* browser it launched, the cookies it read, the stored tokens it loaded   *)
(* and its return value.                                                   *)
(***************************************************************************)
Step(name, inTry) == [name |-> name, inTry |-> inTry]

\* The awaited calls between puppeteer.launch and browser.close, in program
\* order; inTry tells whether the call stands inside the try block.
PageSteps(fn, module) ==
    IF fn = "login"
    THEN <<Step("newPage", FALSE), Step("goto", FALSE),
           Step("waitForFunction", TRUE), Step("cookies", TRUE)>>
    ELSE IF fn = "importSession"
    THEN <<Step("newPage", TRUE), Step("goto", TRUE),
           Step("setCookie", TRUE), Step("goto", TRUE),
           Step("waitForFunction", TRUE), Step("setTimeout", TRUE),
           Step("cookies", TRUE)>>
    ELSE IF module = "cached"
    THEN <<Step("newPage", TRUE), Step("setCookie", TRUE),
           Step("goto", TRUE), Step("setTimeout", TRUE),
           Step("cookies", TRUE)>>
    ELSE <<Step("newPage", TRUE), Step("goto", TRUE),
           Step("waitForFunction", TRUE), Step("setTimeout", TRUE),
           Step("cookies", TRUE)>>

Returned(call, t) == [call EXCEPT !.pc = "returned", !.result = t]
Launching(call, cached) == [call EXCEPT !.pc = "launch", !.cached = cached]

\* The synchronous head of extractTokensFromBrowser, up to the await of
\* puppeteer.launch, in the revision with getValidTokensFromFile ...
EnterCached(call) ==
    IF ~hasSession("cached", sessionFile, profileDir)
    THEN Returned(call, NullTokens)
    ELSE LET cached == getValidTokensFromFile(sessionFile, StartMinute)
         IN  IF cached.kind = "tokens" THEN Returned(call, cached)
             ELSE Launching(call, cached)

\* ... and in the revision with extractTokensFromFile.
EnterPortable(call) ==
    LET fileTokens == extractTokensFromFile(sessionFile, StartMinute)
    IN  IF fileTokens.kind = "tokens" THEN Returned(call, fileTokens)
        ELSE IF ~profileDir THEN Returned(call, NullTokens)
        ELSE Launching(call, fileTokens)

\* importSession: process.exit(1) unless session.json exists and parses.
EnterImport(call) ==
    IF sessionFile.state # "ok" THEN [call EXCEPT !.pc = "exited"]
    ELSE Launching(call, NullTokens)

callFrame ==
    <<pc, rangeVars, extractVars, isTestMode, isEmailTest, authModule,
      emailConfig, tokens, tokenSource, cookies, callee, checkVars, error,
      mails, exitCode>>

InitBrowser ==
    /\ pc = "call"
    /\ now = MakeDate(RunToday, 0)
    /\ days = DefaultDays
    /\ endDate = None
    /\ startDate = None
    /\ months = <<>>
    /\ tzOffset = 0
    /\ data = NoPayload
    /\ absentDays = <<>>
    /\ isTestMode = FALSE
    /\ isEmailTest = FALSE
    /\ emailConfig = TRUE
    /\ callee \in {"extractTokensFromBrowser", "login", "importSession"}
    /\ authModule \in IF callee = "extractTokensFromBrowser"
                      THEN {"cached", "portable"} ELSE {"portable"}
    /\ sessionFile \in SessionFiles
    /\ profileDir \in BOOLEAN
    /\ tokens = NullTokens
    /\ tokenSource = "none"
    /\ browsersLaunched = 0
    /\ browsersClosed = 0
    /\ cookies = <<>>
    /\ calls = [c \in Callers |-> IdleCall]
    /\ idx = 0
    /\ requests = <<>>
    /\ allAbsentDays = <<>>
    /\ totalAbsentCount = 0
    /\ monthlySummaries = <<>>
    /\ result = <<>>
    /\ error = <<>>
    /\ mails = <<>>
    /\ exitCode = 0

\* A caller enters the function and runs to its first await.  login and
\* importSession are called once, at the end of their scripts.
Invoke(c) ==
    /\ calls[c].pc = "idle"
    /\ callee = "extractTokensFromBrowser" \/ c = 1
    /\ calls' = [calls EXCEPT ![c] =
           IF callee = "login" THEN Launching(@, NullTokens)
           ELSE IF callee = "importSession" THEN EnterImport(@)
           ELSE IF authModule = "cached" THEN EnterCached(@)
           ELSE EnterPortable(@)]
    \* importSession: fs.rmSync(USER_DATA_DIR); fs.mkdirSync(USER_DATA_DIR)
    /\ profileDir' = IF callee = "importSession" /\ sessionFile.state = "ok"
                     THEN FALSE ELSE profileDir
    /\ UNCHANGED <<callFrame, sessionFile, browsersLaunched, browsersClosed>>

\* puppeteer.launch resolves; with userDataDir the browser creates the
\* profile of login and importSession.
LaunchResolves(c) ==
    /\ calls[c].pc = "launch"
    /\ calls' = [calls EXCEPT ![c].pc = "page", ![c].step = 1,
                              ![c].browser = "open"]
    /\ browsersLaunched' = browsersLaunched + 1
    /\ profileDir' = IF callee \in {"login", "importSession"} THEN TRUE
                     ELSE profileDir
    /\ UNCHANGED <<callFrame, sessionFile, browsersClosed>>

\* puppeteer.launch rejects: the call is outside every try block.
LaunchRejects(c) ==
    /\ calls[c].pc = "launch"
    /\ calls' = [calls EXCEPT ![c].pc = "rejected"]
    /\ UNCHANGED <<callFrame, sessionFile, profileDir, browsersLaunched,
                   browsersClosed>>

\* The awaited page call resolves.  After newPage the cached revision maps
\* cached.cookies, which throws when getValidTokensFromFile returned null;
\* page.cookies() is the last call before browser.close().
PageStepResolves(c) ==
    /\ calls[c].pc = "page"
    /\ LET name == PageSteps(callee, authModule)[calls[c].step].name
       IN  IF /\ callee = "extractTokensFromBrowser"
              /\ authModule = "cached"
              /\ name = "newPage"
              /\ calls[c].cached.kind = "null"
           THEN calls' = [calls EXCEPT ![c].pc = "catch"]
           ELSE IF name = "cookies"
           THEN \E jar \in BrowserJars :
                  calls' = [calls EXCEPT ![c].pc = "close",
                                         ![c].cookies = <<jar>>]
           ELSE calls' = [calls EXCEPT ![c].step = @ + 1]
    /\ UNCHANGED <<callFrame, sessionFile, profileDir, browsersLaunched,
                   browsersClosed>>

\* The awaited page call rejects.  Inside the try block the catch block
\* runs: it closes the browser in extractTokensFromBrowser and only logs in
\* login and importSession, whose browser.close() follows the try statement;
\* importSession ignores a failing setCookie.  Outside the try block the
\* rejection leaves the function.
PageStepThrows(c) ==
    /\ calls[c].pc = "page"
    /\ LET step == PageSteps(callee, authModule)[calls[c].step]
       IN  /\ step.name # "setTimeout"
           /\ calls' = [calls EXCEPT ![c] =
                  IF callee = "importSession" /\ step.name = "setCookie"
                  THEN [@ EXCEPT !.step = @ + 1]
                  ELSE IF ~step.inTry THEN [@ EXCEPT !.pc = "rejected"]
                  ELSE IF callee = "extractTokensFromBrowser"
                  THEN [@ EXCEPT !.pc = "catch"]
                  ELSE [@ EXCEPT !.pc = "close"]]
    /\ UNCHANGED <<callFrame, sessionFile, profileDir, browsersLaunched,
                   browsersClosed>>

\* await browser.close() on the way out, and the code that follows it: the
\* check of the cookies, the write of session.json (cached revision) and the
\* return.
CloseBrowser(c) ==
    /\ calls[c].pc = "close"
    /\ browsersClosed' = browsersClosed + 1
    /\ IF callee # "extractTokensFromBrowser"
       THEN /\ calls' = [calls EXCEPT ![c] =
                   Returned([@ EXCEPT !.browser = "closed"], NullTokens)]
            /\ UNCHANGED sessionFile
       ELSE LET jar == calls[c].cookies[1]
            IN  IF MissingRequired(jar)
                THEN /\ calls' = [calls EXCEPT ![c] =
                            Returned([@ EXCEPT !.browser = "closed"],
                                     NullTokens)]
                     /\ UNCHANGED sessionFile
                ELSE /\ calls' = [calls EXCEPT ![c] =
                            Returned([@ EXCEPT !.browser = "closed"],
                                     TokensOf(jar))]
                     /\ sessionFile' = IF authModule = "cached"
                                       THEN SavedSession(jar)
                                       ELSE sessionFile
    /\ UNCHANGED <<callFrame, profileDir, browsersLaunched>>

\* catch (error) { await browser.close(); ...; return null; }
CatchClose(c) ==
    /\ calls[c].pc = "catch"
    /\ browsersClosed' = browsersClosed + 1
    /\ calls' = [calls EXCEPT ![c] =
           Returned([@ EXCEPT !.browser = "closed"], NullTokens)]
    /\ UNCHANGED <<callFrame, sessionFile, profileDir, browsersLaunched>>

NextBrowser ==
    \/ \E c \in Callers : Invoke(c)
    \/ \E c \in Callers : LaunchResolves(c)
    \/ \E c \in Callers : LaunchRejects(c)
    \/ \E c \in Callers : PageStepResolves(c)
    \/ \E c \in Callers : PageStepThrows(c)
    \/ \E c \in Callers : CloseBrowser(c)
    \/ \E c \in Callers : CatchClose(c)

SpecBrowser == InitBrowser /\ [][NextBrowser]_vars

\* The call found a stored credential that needs refresh, has gone on to
\* the browser and has not returned.
InFlight(c) ==
    /\ calls[c].cached.kind = "needsRefresh"
    /\ calls[c].pc \in {"launch", "page", "close", "catch"}

\* C15: among the callers of extractTokensFromBrowser that found the stored
\* credential in need of refresh, at most one refresh is in flight and at
\* most one browser is open at any time.
OneRefreshInFlight ==
    /\ Cardinality({c \in Callers : InFlight(c)}) <= 1
    /\ Cardinality({c \in Callers :
                       InFlight(c) /\ calls[c].browser = "open"}) <= 1

\* C16: once a function that launched a browser has been left, by return,
\* by rejection or by process exit, the browser it launched is closed.
LaunchedBrowserClosedOnExit ==
    \A c \in Callers :
        calls[c].pc \in {"returned", "rejected", "exited"}
            => calls[c].browser # "open"

SessionAlertDispatched ==
    \E i \in DOMAIN mails : mails[i].kind = "sessionExpired"

ErrorAlertDispatched ==
    \E i \in DOMAIN mails : mails[i].kind = "error"

\* C21: the session-expired alert is dispatched in exactly the finished runs
\* in which main obtained no credential; in a run with that alert no
\* attendance request is issued, no error alert is sent and no fetch has
\* failed.
SessionAlertIffNoCredential ==
    /\ pc = "exited" => (SessionAlertDispatched <=> tokens.kind = "null")
    /\ SessionAlertDispatched =>
           /\ requests = <<>>
           /\ ~ErrorAlertDispatched
           /\ ~FetchFailed

\* C22: within one run no (month, year) is requested twice and at most one
\* browser is launched for the token extraction, whatever fails.
NoRequestOrRefreshRepeated ==
    /\ \A i, j \in DOMAIN requests :
           i # j => \/ requests[i].month # requests[j].month
                    \/ requests[i].year # requests[j].year
    /\ Len(requests) <= Len(months)
    /\ browsersLaunched <= 1

\* C22 witness: the run refreshed through the browser, the fetch of the
\* first of two months failed and the run ended with that one request.
FirstMonthFailedOnce ==
    /\ pc = "exited"
    /\ FetchFailed
    /\ browsersLaunched = 1
    /\ Len(months) = 2
    /\ Len(requests) = 1

\* The three fields of the credential t are those of the cookies jar.
FromOneRead(t, jar) ==
    /\ t.kind = "tokens"
    /\ t.accessToken = jar.hrAtk.value
    /\ t.xsrfToken = jar.xsrf
    /\ t.mappingId = IF jar.hrMid = Undefined THEN "P4D9T6HA" ELSE jar.hrMid

MonthsRequestedOneAtATime ==
    /\ \A i \in DOMAIN requests :
           /\ i <= Len(months)
           /\ requests[i].month = months[i].month
           /\ requests[i].year = months[i].year
    /\ Len(requests) =
           Len(monthlySummaries)
               + (IF pc = "awaitResponse" \/ FetchFailed THEN 1 ELSE 0)

\* C24 witness: the second request is in flight and the first month has
\* been summarised.
SecondRequestAfterFirstAnswer ==
    /\ pc = "awaitResponse"
    /\ Len(requests) = 2
    /\ Len(monthlySummaries) = 1
    /\ requests[2].month = months[2].month

\* C25: the absentDays returned by checkAttendance are in chronological
\* order of date, whatever the order of the day entries in the payloads.
AbsentDaysChronological ==
    result # <<>> =>
        \A i, j \in DOMAIN result[1].absentDays :
            i < j => result[1].absentDays[i].date
                         <= result[1].absentDays[j].date

\* C26: the result of checkAttendance holds totalAbsent, always the length
\* of absentDays, and next to it the sum of the AbsentCount values the
\* remote service reported for the fetched months.
BothTotalsSurfaced ==
    result # <<>> =>
        /\ result[1].totalAbsent = Len(result[1].absentDays)
        /\ \E f \in DOMAIN result[1]
                      \ {"absentDays", "totalAbsent", "summary"} :
               result[1][f] = totalAbsentCount

\* C27: no successful payload with a missing or null part makes the summary
\* construction or extractAbsentDays throw.
NoThrowOnMalformedPayload ==
    ~(error # <<>> /\ error[1].source = "payload")

\* The fields of a summary entry that main reads when it prints the summary.
SummaryFieldsRead ==
    {"month", "year", "payableDays", "inOffice", "onDuty", "absent", "leave",
     "holiday", "weeklyOff", "regularization"}

\* C28: every summary entry built by checkAttendance defines every field
\* that main reads from it.
SummaryDefinesFieldsRead ==
    \A i \in DOMAIN monthlySummaries :
        SummaryFieldsRead \subseteq DOMAIN monthlySummaries[i]

\* C29: every attendance request of the run carries the access token, XSRF
\* token and mapping id that main installed with setTokens, none of them
\* missing.
RequestsCarryInstalledCredential ==
    \A i \in DOMAIN requests :
        /\ tokens.kind = "tokens"
        /\ requests[i].accessToken = tokens.accessToken
        /\ requests[i].xsrfToken = tokens.xsrfToken
        /\ requests[i].mappingId = tokens.mappingId
        /\ requests[i].accessToken # Undefined
        /\ requests[i].xsrfToken # Undefined
        /\ requests[i].mappingId # Undefined

\* C29 witness: two requests were issued with the credential read from the
\* browser.
TwoRequestsWithFreshCredential ==
    /\ Len(requests) = 2
    /\ tokenSource = "browser"
    /\ requests[1].accessToken = "atk-fresh"
    /\ requests[2].accessToken = "atk-fresh"
    /\ requests[2].xsrfToken = "xsrf-fresh"
    /\ requests[2].mappingId = "M1"

MailDelivered(kind) ==
    \E i \in DOMAIN mails : mails[i].kind = kind /\ mails[i].delivered

\* C30: in one run at most one e-mail is delivered, and the error alert is
\* never delivered in a run in which the absence alert was delivered.
AtMostOneMailDelivered ==
    /\ Cardinality({i \in DOMAIN mails : mails[i].delivered}) <= 1
    /\ ~(MailDelivered("absence") /\ MailDelivered("error"))

\* C30 witness: sendAbsenceAlert rejected and the error alert that followed
\* was delivered.
ErrorAlertAfterRejectedAbsenceAlert ==
    /\ pc = "exited"
    /\ Len(mails) = 2
    /\ mails[1].kind = "absence"
    /\ ~mails[1].delivered
    /\ mails[2].kind = "error"
    /\ mails[2].delivered

====
